---- MODULE Spec2Model ----
(***************************************************************************)
(* Level-by-level parallel edge elimination of the PC skeleton             *)
(* (PCAlgorithm::build_correlation_matrix and PCAlgorithm::build_graph of  *)
(* skeleton.cpp), with the Graph, the work queue, the independence test    *)
(* and the Worker it drives.                                               *)
(***************************************************************************)
EXTENDS Integers, FiniteSets, Sequences, TLC

\* ---------------------------------------------------------------- bounds
MaxVars == 4
MaxThreads == 2
MaxIndep == 2
MaxEdges == 4
MaxLiveIndep == 1

\* The significance level handed to the constructor.  p-values are drawn from
\* 0 .. Alpha + 1, so that a p-value can lie below, at, or above the level.
Alpha == 1

VARIABLES
    nr_variables,        \* _nr_variables
    nr_threads,          \* _nr_threads
    pvalue,              \* the outcome of IndepTestGauss::test per (i, j, S)
    graph,               \* *_graph: the frozen graph, vertex -> neighbours
    working_graph,       \* *_working_graph
    separation_matrix,   \* *_separation_matrix, <<>> is nullptr, <<S>> a set
    work_queue,          \* *_work_queue: instruction -> number of copies
    level,               \* build_graph: level
    nodes_to_be_tested,  \* build_graph: nodes_to_be_tested
    nodes_to_delete,     \* build_graph: nodes_to_delete
    queue_size,          \* build_graph: queue_size
    todo,                \* nodes the for loop of line 29 still has to visit
    threads,             \* build_graph: threads.size()
    pc,                  \* position of the engine thread
    wpc,                 \* position of each worker thread
    wlevel,              \* Worker: _level
    winstr,              \* Worker: the instruction being processed
    wrest,               \* Worker: the conditioning sets still to enumerate
    wsep                 \* Worker: the rejecting set about to be recorded

vars == << nr_variables, nr_threads, pvalue, graph, working_graph,
           separation_matrix, work_queue, level, nodes_to_be_tested,
           nodes_to_delete, queue_size, todo, threads, pc, wpc, wlevel,
           winstr, wrest, wsep >>

engineVars == << level, nodes_to_be_tested, nodes_to_delete, queue_size, todo,
                threads, pc >>
workerVars == << wpc, wlevel, winstr, wrest, wsep >>
inputVars == << nr_variables, nr_threads, pvalue >>

\* ------------------------------------------------------------ vocabulary
Vars == 0 .. (nr_variables - 1)
Threads == 1 .. nr_threads
NoInstr == << >>
nullptr == << >>

VarsOf(p) == 0 .. (p - 1)
PairsOf(p) == { e \in VarsOf(p) \X VarsOf(p) : e[1] < e[2] }
TriplesOf(p) ==
    { t \in VarsOf(p) \X VarsOf(p) \X SUBSET VarsOf(p) :
        t[1] < t[2] /\ t[1] \notin t[3] /\ t[2] \notin t[3] }

Min(a, b) == IF a < b THEN a ELSE b
Max(a, b) == IF a < b THEN b ELSE a

\* ----------------------------------------------------------------- Graph
\* Graph(vars): the complete graph over the variables, without self-loops.
NewGraph(p) == [v \in VarsOf(p) |-> VarsOf(p) \ {v}]

getNeighbours(g, v) == g[v]

getNeighbourCount(g, v) == Cardinality(g[v])

\* delete_edge(i, j): removes j from adj(i) and i from adj(j); idempotent.
deleteEdge(g, i, j) ==
    [v \in DOMAIN g |-> IF v = i THEN g[v] \ {j}
                        ELSE IF v = j THEN g[v] \ {i}
                        ELSE g[v]]

\* A graph constructed anew in the place of the copy.
CopyGraphFresh(g) == [v \in DOMAIN g |-> (DOMAIN g) \ {v}]

\* Graph(const Graph &): the deep copy made at a level boundary.
CopyGraph(g) == [v \in DOMAIN g |-> g[v]]

\* -------------------------------------------------------- IndepTestGauss
\* The p-value of the test of i and j given S; symmetric in i and j and
\* independent of the order of S.
test(i, j, S) == pvalue[<< Min(i, j), Max(i, j), S >>]

\* -------------------------------------------------------------- WorkQueue
EmptyQueue(p) == [ti \in VarsOf(p) \X VarsOf(p) |-> 0]

Dequeueable(q) == { ti \in DOMAIN q : q[ti] > 0 }

\* ------------------------------------------------------ SeparationMatrix
\* set_if_empty(i, j, S): installs S if slot (i, j) is empty, else discards.
set_if_empty(m, i, j, S) ==
    IF m[<< i, j >>] = nullptr THEN [m EXCEPT ![<< i, j >>] = << S >>] ELSE m

\* ------------------------------------------------------------------ Init
\* The inputs: the number of variables, the number of threads, and the
\* outcome of every independence test.  E0 is the set of pairs whose marginal
\* test stays below alpha (at most MaxEdges of them); C is the set of the
\* conditional tests that reach alpha, at most maxIndep of them
\* (only tests of pairs in E0 can ever be asked).  A test that reaches alpha
\* has the p-value HighValue: alpha itself for some tests, above it for others.
Nil == << >>

HighValue(t) == Alpha + ((t[1] + t[2] + Cardinality(t[3])) % 2)

InitWith(maxIndep) ==
    /\ nr_variables \in 2 .. MaxVars
    /\ nr_threads \in 1 .. MaxThreads
    /\ \E E0 \in { e \in SUBSET PairsOf(nr_variables) : Cardinality(e) <= MaxEdges } :
         LET Cond == { t \in TriplesOf(nr_variables) :
                          t[3] # {} /\ << t[1], t[2] >> \in E0 }
         IN \E f \in [1 .. maxIndep -> Cond \cup { Nil }] :
              LET C == { f[k] : k \in 1 .. maxIndep } \ { Nil }
              IN pvalue = [t \in TriplesOf(nr_variables) |->
                              IF \/ t[3] = {} /\ << t[1], t[2] >> \notin E0
                                 \/ t \in C
                              THEN HighValue(t) ELSE 0]
    /\ graph = NewGraph(nr_variables)
    /\ working_graph = nullptr
    /\ separation_matrix = [s \in VarsOf(nr_variables) \X VarsOf(nr_variables) |-> nullptr]
    /\ work_queue = EmptyQueue(nr_variables)
    /\ level = 1
    /\ nodes_to_be_tested = {}
    /\ nodes_to_delete = {}
    /\ queue_size = 0
    /\ todo = {}
    /\ threads = 0
    /\ pc = "correlation"
    /\ wpc = [w \in 1 .. nr_threads |-> "none"]
    /\ wlevel = [w \in 1 .. nr_threads |-> 0]
    /\ winstr = [w \in 1 .. nr_threads |-> NoInstr]
    /\ wrest = [w \in 1 .. nr_threads |-> {}]
    /\ wsep = [w \in 1 .. nr_threads |-> {}]

Init == InitWith(MaxIndep)

\* ------------------------------------------- build_correlation_matrix
\* The pairs (i, j), j < i, visited by the two nested loops of level 0.
LevelZeroPairs == { e \in Vars \X Vars : e[2] < e[1] }

\* The deletion applied to the neighbour list of i only.
ScreenEdgeOneWay(g, i, j) ==
    IF test(i, j, {}) >= Alpha THEN [g EXCEPT ![i] = @ \ {j}] ELSE g

\* One marginal test with the edge kept when the p-value equals alpha.
ScreenEdgeStrict(g, i, j) ==
    IF test(i, j, {}) > Alpha THEN deleteEdge(g, i, j) ELSE g

\* One marginal test: the edge is deleted when the p-value reaches alpha.
ScreenEdge(g, i, j) ==
    IF test(i, j, {}) >= Alpha THEN deleteEdge(g, i, j) ELSE g

RECURSIVE ScreenAll(_, _)
ScreenAll(g, P) ==
    IF P = {} THEN g
    ELSE LET e == CHOOSE d \in P : TRUE
         IN ScreenAll(ScreenEdge(g, e[1], e[2]), P \ {e})

\* Level 0 that also records empty_sep for every pair it deletes.
BuildCorrelationMatrixRecording ==
    /\ pc = "correlation"
    /\ LET g == ScreenAll(graph, LevelZeroPairs)
       IN /\ graph' = g
          /\ working_graph' = CopyGraph(g)
          /\ separation_matrix' =
                [s \in DOMAIN separation_matrix |->
                    IF s[1] # s[2] /\ s[2] \notin g[s[1]] THEN << {} >> ELSE nullptr]
    /\ pc' = "build_graph"
    /\ UNCHANGED << inputVars, work_queue, level, nodes_to_be_tested,
                    nodes_to_delete, queue_size, todo, threads, workerVars >>

BuildCorrelationMatrix ==
    /\ pc = "correlation"
    /\ LET g == ScreenAll(graph, LevelZeroPairs)
       IN /\ graph' = g
          /\ working_graph' = CopyGraph(g)
    /\ pc' = "build_graph"
    /\ UNCHANGED << inputVars, separation_matrix, work_queue, level,
                    nodes_to_be_tested, nodes_to_delete, queue_size, todo,
                    threads, workerVars >>

\* ------------------------------------------------------------ build_graph
\* Entry with variable 0 left out of the nodes to be tested.
BuildGraphStartSkippingZero ==
    /\ pc = "build_graph"
    /\ level' = 1
    /\ nodes_to_be_tested' = Vars \ {0}
    /\ pc' = "loop"
    /\ UNCHANGED << inputVars, graph, working_graph, separation_matrix,
                    work_queue, nodes_to_delete, queue_size, todo, threads,
                    workerVars >>

\* Entry: level = 1 and every variable is a node to be tested.
BuildGraphStart ==
    /\ pc = "build_graph"
    /\ level' = 1
    /\ nodes_to_be_tested' = Vars
    /\ pc' = "loop"
    /\ UNCHANGED << inputVars, graph, working_graph, separation_matrix,
                    work_queue, nodes_to_delete, queue_size, todo, threads,
                    workerVars >>

\* while(!nodes_to_be_tested.empty()): the head of the level loop.
LoopHead ==
    /\ pc = "loop"
    /\ IF nodes_to_be_tested = {}
       THEN /\ pc' = "done"
            /\ UNCHANGED << queue_size, nodes_to_delete, todo >>
       ELSE /\ pc' = "fill"
            /\ queue_size' = 0
            /\ nodes_to_delete' = {}
            /\ todo' = nodes_to_be_tested
    /\ UNCHANGED << inputVars, graph, working_graph, separation_matrix,
                    work_queue, level, nodes_to_be_tested, threads, workerVars >>

\* Off by one: the neighbour y itself is counted as a conditioning candidate.
HasEnoughNeighboursOffByOne(x) == getNeighbourCount(graph, x) >= level

\* One neighbour more than needed is asked for.
HasEnoughNeighboursStrict(x) == getNeighbourCount(graph, x) - 1 > level

\* The guard two short: vertices with level - 1 neighbours pass.
HasEnoughNeighboursOffByTwo(x) == getNeighbourCount(graph, x) + 1 >= level

\* The guard of line 30: x can supply a conditioning set of this level.
HasEnoughNeighbours(x) == getNeighbourCount(graph, x) - 1 >= level

\* The index comparison turned round: the lower endpoint issues.
EnqueueCondLowerIssues(x, y) == x < y \/ getNeighbourCount(graph, y) - 1 < level

\* The second disjunct dropped: only the index order decides.
EnqueueCondIndexOnly(x, y) == y < x

\* The guard of line 33: x issues the instruction for its neighbour y.
EnqueueCond(x, y) == y < x \/ getNeighbourCount(graph, y) - 1 < level

\* The instructions the body of the for loop enqueues for node x.
EnqueuedBy(x) ==
    IF HasEnoughNeighbours(x)
    THEN { << x, y >> : y \in { n \in getNeighbours(graph, x) : EnqueueCond(x, n) } }
    ELSE {}

\* One iteration of the for loop over nodes_to_be_tested.  The order in which
\* an unordered_set is visited is not fixed by the program; what an iteration
\* enqueues depends on the frozen graph and the level only, and the queue
\* keeps no order, so the nodes are visited in ascending order here.
FillNode(x) ==
    /\ pc = "fill"
    /\ x \in todo
    /\ \A z \in todo : x <= z
    /\ todo' = todo \ {x}
    /\ work_queue' = [ti \in DOMAIN work_queue |->
                         IF ti \in EnqueuedBy(x) THEN work_queue[ti] + 1
                         ELSE work_queue[ti]]
    /\ queue_size' = queue_size + Cardinality(EnqueuedBy(x))
    /\ nodes_to_delete' = IF HasEnoughNeighbours(x) THEN nodes_to_delete
                          ELSE nodes_to_delete \cup {x}
    /\ UNCHANGED << inputVars, graph, working_graph, separation_matrix,
                    level, nodes_to_be_tested, threads, pc, workerVars >>

\* The for loop over nodes_to_be_tested left before its last iteration.
EndFillEarly ==
    /\ pc = "fill"
    /\ IF queue_size # 0
       THEN /\ pc' = "spawn"
            /\ threads' = 0
            /\ UNCHANGED graph
       ELSE /\ pc' = "done"
            /\ graph' = CopyGraph(working_graph)
            /\ UNCHANGED threads
    /\ UNCHANGED << inputVars, working_graph, separation_matrix, work_queue,
                    level, nodes_to_be_tested, nodes_to_delete, queue_size,
                    todo, workerVars >>

\* if(queue_size) ... else { _graph = copy of _working_graph; break; }
EndFill ==
    /\ pc = "fill"
    /\ todo = {}
    /\ IF queue_size # 0
       THEN /\ pc' = "spawn"
            /\ threads' = 0
            /\ UNCHANGED graph
       ELSE /\ pc' = "done"
            /\ graph' = CopyGraph(working_graph)
            /\ UNCHANGED threads
    /\ UNCHANGED << inputVars, working_graph, separation_matrix, work_queue,
                    level, nodes_to_be_tested, nodes_to_delete, queue_size,
                    todo, workerVars >>

\* The level after the current one handed over.
WorkerLevelNext == level + 1

\* The working graph handed over in the place of the frozen graph.
WorkerGraphIsWorking == working_graph

\* The graph objects and the level a Worker is constructed with.
WorkerLevel == level
WorkerGraph == graph
WorkerWorkingGraph == working_graph

\* A worker thread that has been started and has not returned.
Running(w) == wpc[w] \in { "run", "test", "write" }

\* One iteration of rep(i, _nr_threads): a Worker is constructed and its
\* thread started; threads started earlier are already running.
Spawn(w) ==
    /\ pc = "spawn"
    /\ w = threads + 1
    /\ threads' = w
    /\ wpc' = [wpc EXCEPT ![w] = "run"]
    /\ wlevel' = [wlevel EXCEPT ![w] = WorkerLevel]
    /\ winstr' = [winstr EXCEPT ![w] = NoInstr]
    /\ wrest' = [wrest EXCEPT ![w] = {}]
    /\ wsep' = [wsep EXCEPT ![w] = {}]
    /\ pc' = IF w = nr_threads THEN "join" ELSE "spawn"
    /\ UNCHANGED << inputVars, graph, working_graph, separation_matrix,
                    work_queue, level, nodes_to_be_tested, nodes_to_delete,
                    queue_size, todo >>

\* The join loop left out: the engine goes on at once.
AllJoinedNoWait == TRUE

\* Only the first thread is joined.
AllJoinedFirstOnly == wpc[1] = "exit"

\* Only the thread started last is joined.
AllJoinedLastOnly == wpc[nr_threads] = "exit"

\* thread->join() has returned for every thread.
AllJoined == \A w \in Threads : wpc[w] = "exit"

Join ==
    /\ pc = "join"
    /\ AllJoined
    /\ pc' = "promote"
    /\ UNCHANGED << inputVars, graph, working_graph, separation_matrix,
                    work_queue, level, nodes_to_be_tested, nodes_to_delete,
                    queue_size, todo, threads, workerVars >>

\* The end of the loop body with the separation matrix created anew.
PromoteResetting ==
    /\ pc = "promote"
    /\ nodes_to_be_tested' = nodes_to_be_tested \ nodes_to_delete
    /\ graph' = CopyGraph(working_graph)
    /\ level' = level + 1
    /\ separation_matrix' = [s \in DOMAIN separation_matrix |-> nullptr]
    /\ pc' = "loop"
    /\ UNCHANGED << inputVars, working_graph, work_queue, nodes_to_delete,
                    queue_size, todo, threads, workerVars >>

\* The end of the loop body without the erase of the nodes to delete.
PromoteNoErase ==
    /\ pc = "promote"
    /\ nodes_to_be_tested' = nodes_to_be_tested
    /\ graph' = CopyGraph(working_graph)
    /\ level' = level + 1
    /\ pc' = "loop"
    /\ UNCHANGED << inputVars, working_graph, separation_matrix, work_queue,
                    nodes_to_delete, queue_size, todo, threads, workerVars >>

\* The end of the loop body without the promotion of the working graph.
PromoteKeepingFrozen ==
    /\ pc = "promote"
    /\ nodes_to_be_tested' = nodes_to_be_tested \ nodes_to_delete
    /\ graph' = graph
    /\ level' = level + 1
    /\ pc' = "loop"
    /\ UNCHANGED << inputVars, working_graph, separation_matrix, work_queue,
                    nodes_to_delete, queue_size, todo, threads, workerVars >>

\* The end of the loop body: erase the nodes that failed the guard, promote
\* the working graph, go to the next level.
Promote ==
    /\ pc = "promote"
    /\ nodes_to_be_tested' = nodes_to_be_tested \ nodes_to_delete
    /\ graph' = CopyGraph(working_graph)
    /\ level' = level + 1
    /\ pc' = "loop"
    /\ UNCHANGED << inputVars, working_graph, separation_matrix, work_queue,
                    nodes_to_delete, queue_size, todo, threads, workerVars >>

\* ----------------------------------------------------------------- Worker
\* The subsets of A with exactly k elements.
SubsetsOfSize(A, k) == { S \in SUBSET A : Cardinality(S) = k }

SetMin(S) == CHOOSE m \in S : \A n \in S : m <= n

\* Lexicographic order on the ascending listings of two sets of equal size.
LexLess(S, T) ==
    /\ S # T
    /\ SetMin((S \ T) \cup (T \ S)) \in S

LexFirst(R) == CHOOSE S \in R : \A T \in R \ {S} : LexLess(S, T)

\* try_dequeue: an empty queue ends the worker; otherwise an instruction
\* (x, y) is taken, A = neighbours_frozen(x) \ {y}, and the instruction is
\* skipped when |A| < level.
Dequeue(w) ==
    /\ wpc[w] = "run"
    /\ IF Dequeueable(work_queue) = {}
       THEN /\ wpc' = [wpc EXCEPT ![w] = "exit"]
            /\ UNCHANGED << work_queue, winstr, wrest >>
       ELSE \E ti \in Dequeueable(work_queue) :
              LET A == getNeighbours(WorkerGraph, ti[1]) \ { ti[2] }
              IN /\ work_queue' = [work_queue EXCEPT ![ti] = @ - 1]
                 /\ IF Cardinality(A) < wlevel[w]
                    THEN UNCHANGED << wpc, winstr, wrest >>
                    ELSE /\ wpc' = [wpc EXCEPT ![w] = "test"]
                         /\ winstr' = [winstr EXCEPT ![w] = ti]
                         /\ wrest' = [wrest EXCEPT ![w] = SubsetsOfSize(A, wlevel[w])]
    /\ UNCHANGED << inputVars, graph, working_graph, separation_matrix,
                    engineVars, wlevel, wsep >>

\* One turn of the subset loop: stop when the edge is already gone from the
\* working graph; otherwise test the next subset and, on p >= alpha, delete
\* the edge from the working graph.  The loop ends with the last subset.
TestNext(w) ==
    /\ wpc[w] = "test"
    /\ LET x == winstr[w][1]
           y == winstr[w][2]
           S == LexFirst(wrest[w])
           last == wrest[w] = {S}
       IN IF y \notin getNeighbours(WorkerWorkingGraph, x)
          THEN /\ wpc' = [wpc EXCEPT ![w] = "run"]
               /\ winstr' = [winstr EXCEPT ![w] = NoInstr]
               /\ wrest' = [wrest EXCEPT ![w] = {}]
               /\ UNCHANGED << working_graph, wsep >>
          ELSE IF test(x, y, S) >= Alpha
          THEN /\ working_graph' = deleteEdge(working_graph, x, y)
               /\ wsep' = [wsep EXCEPT ![w] = S]
               /\ wpc' = [wpc EXCEPT ![w] = "write"]
               /\ wrest' = [wrest EXCEPT ![w] = {}]
               /\ UNCHANGED winstr
          ELSE /\ wrest' = [wrest EXCEPT ![w] = @ \ {S}]
               /\ wpc' = [wpc EXCEPT ![w] = IF last THEN "run" ELSE "test"]
               /\ winstr' = [winstr EXCEPT ![w] = IF last THEN NoInstr ELSE @]
               /\ UNCHANGED << working_graph, wsep >>
    /\ UNCHANGED << inputVars, graph, separation_matrix, work_queue,
                    engineVars, wlevel >>

\* The rejecting set is written into both slots of the pair, if still empty.
WriteSep(w) ==
    /\ wpc[w] = "write"
    /\ LET x == winstr[w][1]
           y == winstr[w][2]
       IN separation_matrix' =
            set_if_empty(set_if_empty(separation_matrix, x, y, wsep[w]), y, x, wsep[w])
    /\ wpc' = [wpc EXCEPT ![w] = "run"]
    /\ winstr' = [winstr EXCEPT ![w] = NoInstr]
    /\ wsep' = [wsep EXCEPT ![w] = {}]
    /\ UNCHANGED << inputVars, graph, working_graph, work_queue, engineVars,
                    wlevel, wrest >>

\* ------------------------------------------------------- specification
Next ==
    \/ BuildCorrelationMatrix
    \/ BuildGraphStart
    \/ LoopHead
    \/ \E x \in Vars : FillNode(x)
    \/ EndFill
    \/ \E w \in Threads : Spawn(w)
    \/ Join
    \/ Promote
    \/ \E w \in Threads : Dequeue(w)
    \/ \E w \in Threads : TestNext(w)
    \/ \E w \in Threads : WriteSep(w)

Spec == Init /\ [][Next]_vars

\* ===================================================================
\* Properties
\* ===================================================================
Edge(g, i, j) == j \in g[i]

\* ---- the edge set a run must end with, as a function of the test outcomes
RefQualifies(g, l, x) == Cardinality(g[x]) - 1 >= l

RefIssued(g, l) ==
    { ti \in Vars \X Vars :
        /\ ti[2] \in g[ti[1]]
        /\ RefQualifies(g, l, ti[1])
        /\ (ti[2] < ti[1] \/ ~RefQualifies(g, l, ti[2])) }

RefRejected(g, l) ==
    { ti \in RefIssued(g, l) :
        \E S \in SubsetsOfSize(g[ti[1]] \ { ti[2] }, l) :
            pvalue[<< Min(ti[1], ti[2]), Max(ti[1], ti[2]), S >>] >= Alpha }

RefNext(g, l) ==
    [v \in Vars |-> { u \in g[v] : << v, u >> \notin RefRejected(g, l)
                                   /\ << u, v >> \notin RefRejected(g, l) }]

RECURSIVE RefFinal(_, _)
RefFinal(g, l) ==
    IF RefIssued(g, l) = {} THEN g ELSE RefFinal(RefNext(g, l), l + 1)

RefLevelZero ==
    [v \in Vars |-> { u \in Vars \ {v} :
                        pvalue[<< Min(u, v), Max(u, v), {} >>] < Alpha }]

Recorded == { s \in DOMAIN separation_matrix : separation_matrix[s] # nullptr }

\* C1: when build_graph has returned, the edge set is the one fixed by the
\* outcomes of the independence tests alone, for every number of workers and
\* every interleaving of their dequeues, tests, deletions and writes.
C1_EdgeSetDeterministic ==
    pc = "done" => graph = RefFinal(RefLevelZero, 1)

\* C1 witness: a run with several workers that deleted two edges has returned.
C1_Witness ==
    /\ pc = "done"
    /\ nr_threads >= 2
    /\ Cardinality(Recorded) >= 4

C3_FrozenGraphStable ==
    /\ [][(pc \in { "spawn", "join" }) => (graph' = graph)]_vars
    /\ [](\A w \in Threads : Running(w) => pc \in { "spawn", "join" })
    /\ [](\A w \in Threads : wpc[w] = "test" =>
            /\ Edge(graph, winstr[w][1], winstr[w][2])
            /\ wrest[w] \subseteq
                 SubsetsOfSize(graph[winstr[w][1]] \ { winstr[w][2] }, level))

\* C3 witness: a worker is enumerating subsets while another worker has
\* already deleted an edge of the same vertex from the working graph.
C3_Witness ==
    \E w \in Threads :
        /\ wpc[w] = "test"
        /\ graph[winstr[w][1]] # working_graph[winstr[w][1]]

\* C4: the graph is promoted, the level incremented and the queue refilled
\* only when no worker is running; a worker is started only when every
\* running worker is of its level; running workers are all of one level.
C4_LevelsSeparated ==
    /\ [][ /\ ( \/ graph' # graph
                \/ level' # level
                \/ \E ti \in DOMAIN work_queue : work_queue'[ti] > work_queue[ti] )
              => \A w \in Threads : ~Running(w)
           /\ \A w \in Threads :
                (wpc[w] \notin { "run", "test", "write" } /\ wpc'[w] = "run")
                  => \A v \in Threads : Running(v) => wlevel[v] = wlevel'[w]
         ]_vars
    /\ [](\A w \in Threads : Running(w) => wlevel[w] = level)

\* C4 witness: a worker of level 2 runs where workers of level 1 ran before.
C4_Witness ==
    /\ level = 2
    /\ \E w \in Threads : Running(w) /\ wlevel[w] = 2
    /\ Recorded # {}

\* C5: when the fill of a level is complete, every edge of the frozen graph
\* with a qualifying endpoint is in the queue exactly once, in one direction,
\* and nothing else is in the queue.
C5_EnqueuedExactlyOnce ==
    (pc = "fill" /\ todo = {}) =>
        \A x \in Vars : \A y \in Vars :
            x <= y =>
              LET n == IF x = y THEN work_queue[<< x, x >>]
                       ELSE work_queue[<< x, y >>] + work_queue[<< y, x >>]
              IN IF /\ Edge(graph, x, y)
                    /\ ( \/ getNeighbourCount(graph, x) - 1 >= level
                         \/ getNeighbourCount(graph, y) - 1 >= level )
                 THEN n = 1
                 ELSE n = 0

\* C5 witness: a fill is complete that enqueued, once each, an edge whose
\* endpoints both qualify and an edge issued by its lower endpoint because
\* the higher one does not qualify.
C5_Witness ==
    /\ pc = "fill" /\ todo = {}
    /\ \E x, y \in Vars :
         /\ work_queue[<< x, y >>] = 1
         /\ getNeighbourCount(graph, x) - 1 >= level
         /\ getNeighbourCount(graph, y) - 1 >= level
    /\ \E x, y \in Vars :
         /\ x < y
         /\ work_queue[<< x, y >>] = 1
         /\ getNeighbourCount(graph, y) - 1 < level

Symmetric(g) == \A i \in DOMAIN g : \A j \in DOMAIN g : (j \in g[i]) <=> (i \in g[j])

NoSelfLoops(g) == \A i \in DOMAIN g : i \notin g[i]

Subgraph(g, h) == \A v \in DOMAIN g : g[v] \subseteq h[v]

\* Edge {i, j} survived level 0 and is gone from the working graph.
DeletedAfterLevelZero(i, j) ==
    /\ pvalue[<< Min(i, j), Max(i, j), {} >>] < Alpha
    /\ ~Edge(working_graph, i, j)

\* C6: after level 0 and after every barrier the promoted graph is symmetric
\* and has no self-loop, and so has the working graph about to be promoted.
C6_SymmetricNoSelfLoops ==
    /\ pc # "correlation" => Symmetric(graph) /\ NoSelfLoops(graph)
    /\ pc = "promote" => Symmetric(working_graph) /\ NoSelfLoops(working_graph)

\* C6 witness: a barrier is passed after several workers deleted two edges
\* at one level, and level 0 had deleted an edge too.
C6_Witness ==
    /\ pc = "promote"
    /\ nr_threads >= 2
    /\ Cardinality({ s \in Recorded : Cardinality(separation_matrix[s][1]) = level }) >= 4
    /\ \E i, j \in Vars : i # j /\ pvalue[<< Min(i, j), Max(i, j), {} >>] >= Alpha

\* C7: no step adds an edge to the frozen graph or to the working graph, and
\* the working graph is a subgraph of the frozen graph it is promoted over.
C7_EdgeSetShrinks ==
    /\ [][Subgraph(graph', graph)]_vars
    /\ [][(pc # "correlation") => Subgraph(working_graph', working_graph)]_vars
    /\ [](pc # "correlation" => Subgraph(working_graph, graph))

\* C7 witness: a promotion has removed an edge that level 0 had kept.
C7_Witness ==
    /\ pc = "loop"
    /\ level >= 2
    /\ \E i, j \in Vars : i # j /\ DeletedAfterLevelZero(i, j) /\ ~Edge(graph, i, j)

\* C8: after a barrier, slot (i, j) of the separation matrix is non-empty
\* exactly when edge {i, j} was deleted at a level >= 1.
C8_SeparationIffDeleted ==
    pc \in { "promote", "loop", "fill", "done" } =>
        \A i \in Vars : \A j \in Vars :
            (separation_matrix[<< i, j >>] # nullptr)
              <=> (i # j /\ DeletedAfterLevelZero(i, j))

\* C8 witness: past a barrier there are a pair deleted at level 0 with empty
\* slots, a pair deleted by a worker with both slots filled, and an edge left.
C8_Witness ==
    /\ pc = "promote"
    /\ \E i, j \in Vars :
         /\ i # j
         /\ pvalue[<< Min(i, j), Max(i, j), {} >>] >= Alpha
         /\ separation_matrix[<< i, j >>] = nullptr
    /\ \E i, j \in Vars :
         /\ separation_matrix[<< i, j >>] # nullptr
         /\ separation_matrix[<< j, i >>] # nullptr
    /\ \E i, j \in Vars : Edge(working_graph, i, j)

\* C9: a slot of the separation matrix that holds a set never changes again.
C9_WrittenOnce ==
    [][\A s \in DOMAIN separation_matrix :
          (separation_matrix[s] # nullptr) => (separation_matrix'[s] = separation_matrix[s])]_vars

\* C9 witness: a set is being recorded at level 2 while the set recorded at
\* level 1 for another pair is still in its slot.
C9_Witness ==
    /\ level = 2
    /\ \E s \in Recorded : Cardinality(separation_matrix[s][1]) = 1
    /\ \E s \in Recorded : Cardinality(separation_matrix[s][1]) = 2

\* C10: a set is recorded for {i, j} only while the edge is in the frozen
\* graph of the current level; it has as many elements as the level, and all
\* of them are neighbours of i or j in that frozen graph, other than i and j.
\* Sets recorded at earlier levels are smaller than the current level.
WitnessSound(i, j, S) ==
    /\ Cardinality(S) = level
    /\ S \subseteq ((graph[i] \cup graph[j]) \ { i, j })

C10_WitnessSound ==
    /\ [][\A s \in DOMAIN separation_matrix :
            (separation_matrix[s] = nullptr /\ separation_matrix'[s] # nullptr) =>
               /\ Edge(graph, s[1], s[2])
               /\ ~Edge(working_graph, s[1], s[2])
               /\ level' = level /\ graph' = graph
               /\ WitnessSound(s[1], s[2], separation_matrix'[s][1])]_vars
    /\ [](\A s \in Recorded :
            IF Edge(graph, s[1], s[2])
            THEN WitnessSound(s[1], s[2], separation_matrix[s][1])
            ELSE Cardinality(separation_matrix[s][1]) < level)

\* C10 witness: a set of two elements stands recorded at level 2 for an edge
\* that is still in the frozen graph of that level.
C10_Witness ==
    /\ level = 2
    /\ \E s \in Recorded :
         /\ Edge(graph, s[1], s[2])
         /\ Cardinality(separation_matrix[s][1]) = 2

\* ---- the reference run for an arbitrary table pv of test outcomes
RefRejectedOf(pv, g, l) ==
    { ti \in RefIssued(g, l) :
        \E S \in SubsetsOfSize(g[ti[1]] \ { ti[2] }, l) :
            pv[<< Min(ti[1], ti[2]), Max(ti[1], ti[2]), S >>] >= Alpha }

RefNextOf(pv, g, l) ==
    [v \in Vars |-> { u \in g[v] : << v, u >> \notin RefRejectedOf(pv, g, l)
                                   /\ << u, v >> \notin RefRejectedOf(pv, g, l) }]

RECURSIVE RefFinalOf(_, _, _)
RefFinalOf(pv, g, l) ==
    IF RefIssued(g, l) = {} THEN g ELSE RefFinalOf(pv, RefNextOf(pv, g, l), l + 1)

RefLevelZeroOf(pv) ==
    [v \in Vars |-> { u \in Vars \ {v} : pv[<< Min(u, v), Max(u, v), {} >>] < Alpha }]

\* The permutations of the variable indices.
Relabellings == { pi \in [Vars -> Vars] : \A a \in Vars : \E b \in Vars : pi[b] = a }

\* The test outcomes of the relabelled input: variable v is called pi[v], so
\* the test of a and b given S is the original test of their preimages.
Relabelled(pi) ==
    LET inv == [a \in Vars |-> CHOOSE b \in Vars : pi[b] = a]
    IN [t \in TriplesOf(nr_variables) |->
           pvalue[<< Min(inv[t[1]], inv[t[2]]), Max(inv[t[1]], inv[t[2]]),
                     { inv[c] : c \in t[3] } >>]]

\* The edge set of the relabelled run, mapped back to the original indices.
RelabelledResult(pi) ==
    LET res == RefFinalOf(Relabelled(pi), RefLevelZeroOf(Relabelled(pi)), 1)
        inv == [a \in Vars |-> CHOOSE b \in Vars : pi[b] = a]
    IN [v \in Vars |-> { inv[u] : u \in res[pi[v]] }]

\* C11: the edge set build_graph returns is the edge set of the run on any
\* relabelling of the variables, mapped back through the inverse relabelling.
C11_RelabellingInvariant ==
    pc = "done" => \A pi \in Relabellings : graph = RelabelledResult(pi)

\* The reference run on the identity relabelling is the run itself.
C11_ReferenceAgrees ==
    pc = "done" => graph = RelabelledResult([v \in Vars |-> v])

\* A vertex that can supply a conditioning set at the current level.
Qualifies(v) == Cardinality(graph[v]) - 1 >= level

FillComplete == pc = "fill" /\ todo = {}

RECURSIVE QueueLengthOver(_, _)
QueueLengthOver(q, D) ==
    IF D = {} THEN 0
    ELSE LET ti == CHOOSE d \in D : TRUE
         IN q[ti] + QueueLengthOver(q, D \ {ti})

QueueLength == QueueLengthOver(work_queue, DOMAIN work_queue)

\* C13: the fill of a level is complete before its first worker is started:
\* workers exist only once every node has been visited, the first worker
\* finds all queue_size instructions in the queue, nothing is dequeued while
\* the queue is being filled, and nothing is enqueued while a worker runs.
C13_FillBeforeSpawn ==
    /\ [](pc \in { "spawn", "join" } => todo = {})
    /\ []((pc = "spawn" /\ threads = 0) => QueueLength = queue_size)
    /\ [](pc = "fill" => \A w \in Threads : ~Running(w))
    /\ [][ /\ (\E ti \in DOMAIN work_queue : work_queue'[ti] < work_queue[ti])
              => (pc \in { "spawn", "join" } /\ todo = {})
           /\ (\E ti \in DOMAIN work_queue : work_queue'[ti] > work_queue[ti])
              => (pc = "fill" /\ \A w \in Threads : ~Running(w))
         ]_vars

\* C13 witness: the first worker has taken an instruction from the filled
\* queue of several instructions while the second is still to be started.
C13_Witness ==
    /\ pc = "spawn"
    /\ threads = 1
    /\ queue_size >= 3
    /\ wpc[1] = "test"
    /\ QueueLength = queue_size - 1

\* C14: when every worker of a level has been joined the queue is empty and
\* no worker holds an instruction, at the next level too; the complete fill
\* holds every instruction once, and every dequeue takes one copy of one
\* instruction and hands it to one worker, which no other worker holds.
C14_QueueDrained ==
    /\ [](pc \in { "promote", "loop" } =>
            /\ QueueLength = 0
            /\ \A w \in Threads : wpc[w] \in { "none", "exit" } /\ winstr[w] = NoInstr)
    /\ [](FillComplete =>
            /\ QueueLength = queue_size
            /\ \A ti \in DOMAIN work_queue : work_queue[ti] <= 1)
    /\ [][\A ti \in DOMAIN work_queue :
            work_queue'[ti] < work_queue[ti] =>
              /\ work_queue'[ti] = work_queue[ti] - 1
              /\ \A tj \in DOMAIN work_queue \ {ti} : work_queue'[tj] = work_queue[tj]
              /\ \E w \in Threads :
                   /\ wpc[w] = "run" /\ wpc'[w] = "test" /\ winstr'[w] = ti
                   /\ \A v \in Threads \ {w} : winstr'[v] = winstr[v] /\ winstr[v] # ti
         ]_vars

\* C14 witness: two workers have been joined after a queue of at least three
\* instructions was drained and an edge deleted.
C14_Witness ==
    /\ pc = "promote"
    /\ nr_threads >= 2
    /\ queue_size >= 3
    /\ QueueLength = 0
    /\ working_graph # graph

\* Some vertex of the frozen graph has at least level + 1 neighbours.
SomeVertexTestable == \E v \in Vars : Cardinality(graph[v]) >= level + 1

\* C15: when the fill of a level is complete the queue is non-empty exactly
\* when some vertex of the frozen graph has at least level + 1 neighbours, and
\* workers are started exactly then; otherwise build_graph returns from that
\* fill with the edge set unchanged and no worker of that level, and no level
\* from this one on would enqueue anything on that graph.
C15_SpawnIffTestable ==
    /\ [](FillComplete => ((queue_size # 0) <=> SomeVertexTestable))
    /\ [][ /\ (FillComplete /\ SomeVertexTestable) => (pc' = "spawn")
           /\ (pc' = "spawn" /\ pc # "spawn") => (FillComplete /\ SomeVertexTestable)
           /\ (FillComplete /\ ~SomeVertexTestable) =>
                /\ pc' = "done"
                /\ graph' = graph
                /\ working_graph' = working_graph
                /\ wpc' = wpc
         ]_vars
    /\ []((FillComplete /\ ~SomeVertexTestable) =>
            /\ QueueLength = 0
            /\ \A l \in level .. nr_variables : RefIssued(graph, l) = {})
    /\ [](pc = "done" =>
            /\ ~SomeVertexTestable
            /\ \A w \in Threads : wpc[w] # "none" => wlevel[w] < level)
    /\ [](\A w \in Threads : Running(w) => SomeVertexTestable)

\* C15 witness: the fill of level 2 has enqueued nothing on a graph that
\* still has edges, after workers had been started at level 1.
C15_Witness ==
    /\ FillComplete
    /\ level = 2
    /\ queue_size = 0
    /\ \E i, j \in Vars : Edge(graph, i, j)
    /\ \E w \in Threads : wpc[w] = "exit" /\ wlevel[w] = 1

C17_WorkingStartsAsCopy ==
    /\ (pc \in { "build_graph", "loop", "fill" }) => working_graph = graph
    /\ (pc = "spawn" /\ threads = 0) => working_graph = graph
    /\ (pc = "done") => graph = working_graph

\* C17 witness: the workers of level 2 are about to be started on a frozen
\* graph that lost an edge at level 1.
C17_Witness ==
    /\ pc = "spawn"
    /\ threads = 0
    /\ level = 2
    /\ \E i, j \in Vars : i # j /\ DeletedAfterLevelZero(i, j) /\ ~Edge(graph, i, j)

\* C18: after level 0, for every pair i # j the edge {i, j} is in the graph
\* exactly when the marginal test returned a p-value strictly below alpha, and
\* the working graph is a copy of that graph.
C18_LevelZeroScreen ==
    (pc = "build_graph") =>
        /\ \A i \in Vars : \A j \in Vars \ {i} :
             Edge(graph, i, j) <=> (test(i, j, {}) < Alpha)
        /\ \A v \in Vars : v \notin graph[v]
        /\ working_graph = graph

\* C18 witness: level 0 has deleted a pair whose p-value equals alpha and a
\* pair whose p-value exceeds alpha, and has kept a pair.
C18_Witness ==
    /\ pc = "build_graph"
    /\ \E i, j \in Vars : i # j /\ test(i, j, {}) = Alpha /\ ~Edge(graph, i, j)
    /\ \E i, j \in Vars : i # j /\ test(i, j, {}) > Alpha /\ ~Edge(graph, i, j)
    /\ \E i, j \in Vars : i # j /\ test(i, j, {}) < Alpha /\ Edge(graph, i, j)

\* C19: every instruction (x, y) in the queue, and so every instruction a
\* worker takes, has y among the frozen neighbours of x and at least level
\* other frozen neighbours of x; the worker that takes it has that level and
\* goes on to test it: the skip for too few neighbours is never taken.
C19_PreconditionHolds ==
    /\ [](\A ti \in Dequeueable(work_queue) :
            /\ Edge(graph, ti[1], ti[2])
            /\ Cardinality(graph[ti[1]] \ { ti[2] }) >= level)
    /\ [][\A ti \in DOMAIN work_queue :
            work_queue'[ti] < work_queue[ti] =>
              \E w \in Threads :
                /\ wpc[w] = "run"
                /\ wlevel[w] = level
                /\ Edge(WorkerGraph, ti[1], ti[2])
                /\ Cardinality(getNeighbours(WorkerGraph, ti[1]) \ { ti[2] }) >= wlevel[w]
                /\ wpc'[w] = "test"
                /\ winstr'[w] = ti
                /\ wrest'[w] # {}
         ]_vars

\* C19 witness: a worker of level 2 has taken an instruction (x, y) where x
\* has exactly two frozen neighbours other than y.
C19_Witness ==
    \E w \in Threads :
        /\ wpc[w] = "test"
        /\ wlevel[w] = 2
        /\ Cardinality(graph[winstr[w][1]] \ { winstr[w][2] }) = 2
        /\ wrest[w] = { graph[winstr[w][1]] \ { winstr[w][2] } }

\* C20: at the start of the fill of every level, every vertex with at least
\* level + 1 neighbours in the frozen graph is among the nodes to be tested;
\* a node is erased only after it failed the guard of the level that ends,
\* and an erased node never again has level + 1 neighbours.
C20_NoCandidateLost ==
    /\ []((pc \in { "loop", "fill" }) =>
            \A v \in Vars : Cardinality(graph[v]) >= level + 1 => v \in nodes_to_be_tested)
    /\ []((pc \notin { "correlation", "build_graph" }) =>
            \A v \in Vars \ nodes_to_be_tested : Cardinality(graph[v]) < level + 1)
    /\ [][(pc # "build_graph") =>
            /\ nodes_to_be_tested' \subseteq nodes_to_be_tested
            /\ \A v \in nodes_to_be_tested \ nodes_to_be_tested' :
                 v \in nodes_to_delete /\ Cardinality(graph[v]) - 1 < level
         ]_vars

\* C20 witness: the fill of level 2 starts with some nodes erased, a node
\* with three neighbours still to be visited and a node left in the set that
\* will fail the guard.
C20_Witness ==
    /\ pc = "fill"
    /\ level = 2
    /\ todo = nodes_to_be_tested
    /\ nodes_to_be_tested # Vars
    /\ \E v \in nodes_to_be_tested : Cardinality(graph[v]) >= 3
    /\ \E v \in nodes_to_be_tested : Cardinality(graph[v]) < 3

\* ---- the same scheduling made fair: the engine thread and every worker
\* thread that can take a step eventually takes one.
Engine ==
    \/ BuildCorrelationMatrix
    \/ BuildGraphStart
    \/ LoopHead
    \/ \E x \in Vars : FillNode(x)
    \/ EndFill
    \/ \E w \in Threads : Spawn(w)
    \/ Join
    \/ Promote

Worker(w) ==
    /\ w \in Threads
    /\ (Dequeue(w) \/ TestNext(w) \/ WriteSep(w))

\* The inputs of the fair runs: at most MaxLiveIndep conditional tests reach
\* alpha.
LiveInit == InitWith(MaxLiveIndep)

FairSpec ==
    /\ LiveInit
    /\ [][Next]_vars
    /\ WF_vars(Engine)
    /\ \A w \in 1 .. MaxThreads : WF_vars(Worker(w))

====
